---- MODULE Spec2Model ----
(***************************************************************************)
(* Model of server.js: an Express application over a PostgreSQL pool.      *)
(* Every handler is an async function.  The arrival of a request and the   *)
(* synchronous validation that precedes the first `await` are one step;    *)
(* each `await` on the store is one atomic step, together with the         *)
(* synchronous code that follows it up to the next `await` (the response,  *)
(* the release of the client).  Process p handles the p-th request that    *)
(* arrives; requests run concurrently.                                     *)
(* The store is modelled as tables of committed rows plus, per pooled      *)
(* connection, the state of the transaction open on it and the rows        *)
(* written inside that transaction.  pool.query runs its statement on any  *)
(* idle connection; pool.connect hands an idle connection to the handler   *)
(* until client.release.                                                   *)
(*                                                                         *)
(* SpecAuth   registrations and logins, starting from an empty store       *)
(* SpecForum  room creations, joins and sends of two registered users;     *)
(*            either INSERT of a room creation may be refused by the store *)
(* SpecList   listings over the Message tables two rooms can hold          *)
(* SpecPlants plant registrations                                          *)
(* SpecEspecies      species searches over two fixed species tables        *)
(* SpecValidated     the seven handlers with required fields, together     *)
(* SpecTransactions  registrations and room creations                      *)
(* FairSpecFailures  registrations and room creations on a store that may  *)
(*                   fail any operation; every await settles               *)
(***************************************************************************)
EXTENDS Integers, Sequences, FiniteSets, Bags, TLC

\* ---- bounds ----
MaxRequests == 2    \* requests of one behaviour (all may be in flight together)
NConn == 2          \* connections of the pool
MaxMessages == 3    \* Message rows of the store a listing reads
MaxLimit == 3       \* largest limit a listing supplies
MaxListings == 1    \* listings of one behaviour of SpecList
MaxPlants == 2      \* plant registrations of one behaviour of SpecPlants

VARIABLES db, seqs, pool, held, pc, req, loc, resp, ins, pre

vars == <<db, seqs, pool, held, pc, req, loc, resp, ins, pre>>

Proc == 1..MaxRequests

\* ---- values of request fields ----
\* "" is a missing or empty field (both are falsy)
Usernames == {"", "ana", "Ana", "bia"}
Passwords == {"", "p", "q"}

\* String.prototype.toLowerCase on the usernames above
toLowerCase(s) == IF s = "Ana" THEN "ana" ELSE s

\* ---- the store ----
EmptyDb == [users |-> <<>>, rooms |-> <<>>, room_members |-> <<>>,
            messages |-> <<>>, plantas |-> <<>>, plant_comments |-> <<>>]

EmptySeqs == [users |-> 0, rooms |-> 0, messages |-> 0, plantas |-> 0, plant_comments |-> 0]

\* a connection: the state of its transaction ("none", "open", "aborted") and
\* the rows written inside it
CleanConn == [tx |-> "none", pend |-> <<>>]

\* the pool: the bag of the idle connections
CleanPool == [cs \in {CleanConn} |-> NConn]

RECURSIVE PendRows(_, _)
\* rows written to table t inside a transaction
PendRows(pend, t) ==
  IF pend = <<>> THEN <<>>
  ELSE IF Head(pend).t = t THEN <<Head(pend).row>> \o PendRows(Tail(pend), t)
       ELSE PendRows(Tail(pend), t)

\* the rows of table t a statement running on connection cs sees
\* (read committed: the committed rows and the transaction's own writes)
Visible(cs, t) == db[t] \o PendRows(cs.pend, t)

RECURSIVE ApplyPend(_, _)
ApplyPend(d, pend) ==
  IF pend = <<>> THEN d
  ELSE ApplyPend([d EXCEPT ![Head(pend).t] = Append(@, Head(pend).row)], Tail(pend))

RECURSIVE PendTables(_)
PendTables(pend) ==
  IF pend = <<>> THEN <<>> ELSE <<Head(pend).t>> \o PendTables(Tail(pend))

\* a statement sent on a connection whose transaction is aborted is refused
Refused(cs) == cs.tx = "aborted"

\* a statement that fails inside a transaction aborts it
Abort(cs) == [cs EXCEPT !.tx = IF @ = "open" THEN "aborted" ELSE @]

ExecBeginNone(cs) == cs

\* BEGIN: opens a transaction; a no-op (with a warning) inside an open one
ExecBegin(cs) == [cs EXCEPT !.tx = "open"]

\* ROLLBACK: discards the transaction's writes
ExecRollback(cs) == [cs EXCEPT !.tx = "none", !.pend = <<>>]

\* COMMIT: publishes the transaction's writes (an aborted one is rolled back)
CommitDb(d, cs) == IF cs.tx = "open" THEN ApplyPend(d, cs.pend) ELSE d

\* the tables the rows published by COMMIT go to
CommitTables(cs) == IF cs.tx = "open" THEN PendTables(cs.pend) ELSE <<>>

\* INSERT of one row on connection cs: inside a transaction the row is
\* pending, outside it is committed at once
InsertConn(cs, t, row) ==
  IF cs.tx = "open" THEN [cs EXCEPT !.pend = Append(@, [t |-> t, row |-> row])] ELSE cs

InsertDb(d, cs, t, row) ==
  IF cs.tx = "open" THEN d ELSE [d EXCEPT ![t] = Append(@, row)]

InsertTables(cs, t) == IF cs.tx = "open" THEN <<>> ELSE <<t>>

\* the idle connections
IdleConns == BagToSet(pool)

\* the pool once connection cs has been taken out of it
Take(cs) == pool (-) SetToBag({cs})

\* the pool once connection cs has been put back
Put(pl, cs) == pl (+) SetToBag({cs})

\* the connections other than cs (one of the idle ones, or the one p holds)
OtherConns(p, cs) ==
  {held[q][1] : q \in {x \in Proc \ {p} : held[x] # <<>>}}
    \cup (IF held[p] # <<>> THEN IdleConns ELSE BagToSet(Take(cs)))

\* ---- requests, responses ----
NoReq == [op |-> "none"]
NoResp == [status |-> 0, body |-> <<>>]
NoLoc == [id |-> 0, row |-> <<>>]
NoPre == [taken |-> FALSE, member |-> FALSE, joined |-> FALSE]

Reply(status, body) == [status |-> status, body |-> body]

\* requests arrive in the order of their numbers
Arrives(p) == pc[p] = "idle" /\ (IF p = 1 THEN TRUE ELSE pc[p - 1] # "idle")

\* SELECT ... FROM users WHERE username = $1
SelectUsers(rows, name) == SelectSeq(rows, LAMBDA u : u.username = name)

\* SELECT 1 FROM room_members WHERE room_id = $1 AND user_id = $2
SelectMembers(rows, roomId, userId) ==
  SelectSeq(rows, LAMBDA m : m.room_id = roomId /\ m.user_id = userId)

\* ---- what holds when a request arrives (recorded for the properties) ----
UsernameTaken(name) == Len(SelectUsers(db.users, toLowerCase(name))) > 0

IsMember(roomId, userId) == Len(SelectMembers(db.room_members, roomId, userId)) > 0

JoinCompleted(roomId, userId) ==
  \E q \in Proc : /\ pc[q] = "done" /\ req[q].op = "join"
                  /\ req[q].roomId = roomId /\ req[q].user_id = userId

\* ---- POST /api/auth/register ----
Register(p) ==
  /\ Arrives(p)
  /\ \E username \in Usernames, password \in Passwords :
       /\ req' = [req EXCEPT ![p] =
            [op |-> "register", username |-> username, password |-> password]]
       /\ pre' = [pre EXCEPT ![p] = [NoPre EXCEPT !.taken = UsernameTaken(username)]]
       /\ IF username = "" \/ password = ""
            THEN /\ resp' = [resp EXCEPT ![p] = Reply(400, <<>>)]
                 /\ pc' = [pc EXCEPT ![p] = "done"]
            ELSE /\ pc' = [pc EXCEPT ![p] = "reg_connect"]
                 /\ UNCHANGED resp
  /\ UNCHANGED <<db, seqs, pool, held, loc, ins>>

RegisterConnect(p) ==
  /\ pc[p] = "reg_connect"
  /\ \E cs \in IdleConns :
       /\ pool' = Take(cs)
       /\ held' = [held EXCEPT ![p] = <<cs>>]
  /\ pc' = [pc EXCEPT ![p] = "reg_begin"]
  /\ UNCHANGED <<db, seqs, req, loc, resp, ins, pre>>

RegisterBegin(p) ==
  /\ pc[p] = "reg_begin"
  /\ LET client == held[p][1] IN
       IF Refused(client)
         THEN /\ pc' = [pc EXCEPT ![p] = "reg_rollback"]
              /\ UNCHANGED held
         ELSE /\ held' = [held EXCEPT ![p] = <<ExecBegin(client)>>]
              /\ pc' = [pc EXCEPT ![p] = "reg_select"]
  /\ UNCHANGED <<db, seqs, pool, req, loc, resp, ins, pre>>

CheckUsernameRaw(username) == username

\* the username the existence check looks up
CheckUsername(username) == toLowerCase(username)

RegisterSelect(p) ==
  /\ pc[p] = "reg_select"
  /\ LET client == held[p][1]
         userCheck == SelectUsers(Visible(client, "users"), CheckUsername(req[p].username))
     IN IF Refused(client)
          THEN /\ pc' = [pc EXCEPT ![p] = "reg_rollback"]
               /\ UNCHANGED <<pool, held, resp>>
          ELSE IF Len(userCheck) > 0
            THEN \* return inside try: only the finally block runs, the client
                 \* is released as it is
                 /\ resp' = [resp EXCEPT ![p] = Reply(400, <<>>)]
                 /\ pool' = Put(pool, client)
                 /\ held' = [held EXCEPT ![p] = <<>>]
                 /\ pc' = [pc EXCEPT ![p] = "done"]
            ELSE /\ pc' = [pc EXCEPT ![p] = "reg_insert"]
                 /\ UNCHANGED <<pool, held, resp>>
  /\ UNCHANGED <<db, seqs, req, loc, ins, pre>>

InsertUsernameRaw(username) == username

\* the username the INSERT stores
InsertUsername(username) == toLowerCase(username)

\* unique constraint on users.username: a row with this username is committed
\* or written by the inserting transaction itself
UsersUniqueViolated(cs, name) == Len(SelectUsers(Visible(cs, "users"), name)) > 0

\* another transaction holds an uncommitted row with this username: the
\* INSERT waits for that transaction to end
UsersUniqueWaits(p, cs, name) ==
  \E other \in OtherConns(p, cs) : Len(SelectUsers(PendRows(other.pend, "users"), name)) > 0

RegisterInsert(p) ==
  /\ pc[p] = "reg_insert"
  /\ LET client == held[p][1]
         name == InsertUsername(req[p].username)
         row == [id |-> seqs.users + 1, username |-> name, password |-> req[p].password]
     IN /\ ~UsersUniqueWaits(p, client, name)
        /\ IF Refused(client)
             THEN /\ pc' = [pc EXCEPT ![p] = "reg_rollback"]
                  /\ UNCHANGED <<db, seqs, held, loc>>
             ELSE IF UsersUniqueViolated(client, name)
               THEN /\ held' = [held EXCEPT ![p] = <<Abort(client)>>]
                    /\ seqs' = [seqs EXCEPT !.users = @ + 1]
                    /\ pc' = [pc EXCEPT ![p] = "reg_rollback"]
                    /\ UNCHANGED <<db, loc>>
               ELSE /\ held' = [held EXCEPT ![p] = <<InsertConn(client, "users", row)>>]
                    /\ db' = InsertDb(db, client, "users", row)
                    /\ seqs' = [seqs EXCEPT !.users = @ + 1]
                    /\ loc' = [loc EXCEPT ![p].row = [id |-> row.id, username |-> row.username]]
                    /\ pc' = [pc EXCEPT ![p] = "reg_commit"]
  /\ UNCHANGED <<pool, req, resp, ins, pre>>

RegisterCommit(p) ==
  /\ pc[p] = "reg_commit"
  /\ LET client == held[p][1] IN
       /\ db' = CommitDb(db, client)
       /\ ins' = [ins EXCEPT ![p] = @ \o CommitTables(client)]
       /\ pool' = Put(pool, ExecRollback(client))
  /\ held' = [held EXCEPT ![p] = <<>>]
  /\ resp' = [resp EXCEPT ![p] = Reply(201, loc[p].row)]
  /\ pc' = [pc EXCEPT ![p] = "done"]
  /\ UNCHANGED <<seqs, req, loc, pre>>

RegisterRollback(p) ==
  /\ pc[p] = "reg_rollback"
  /\ pool' = Put(pool, ExecRollback(held[p][1]))
  /\ held' = [held EXCEPT ![p] = <<>>]
  /\ resp' = [resp EXCEPT ![p] = Reply(500, <<>>)]
  /\ pc' = [pc EXCEPT ![p] = "done"]
  /\ UNCHANGED <<db, seqs, req, loc, ins, pre>>

\* ---- POST /api/auth/login ----
LoginUsernameRaw(username) == username

\* the username the login looks up
LoginUsername(username) == toLowerCase(username)

Login(p) ==
  /\ Arrives(p)
  /\ \E username \in Usernames, password \in Passwords :
       /\ req' = [req EXCEPT ![p] =
            [op |-> "login", username |-> username, password |-> password]]
       /\ IF username = "" \/ password = ""
            THEN /\ resp' = [resp EXCEPT ![p] = Reply(400, <<>>)]
                 /\ pc' = [pc EXCEPT ![p] = "done"]
            ELSE /\ pc' = [pc EXCEPT ![p] = "login_query"]
                 /\ UNCHANGED resp
  /\ UNCHANGED <<db, seqs, pool, held, loc, ins, pre>>

\* what the handler answers from the rows of its query
LoginReply(rows, password) ==
  IF Len(rows) = 0 THEN Reply(404, <<>>)
  ELSE IF password # rows[1].password THEN Reply(401, <<>>)
  ELSE Reply(200, [id |-> rows[1].id, username |-> rows[1].username])

LoginQuery(p) ==
  /\ pc[p] = "login_query"
  /\ \E cs \in IdleConns :
       LET userQuery == SelectUsers(Visible(cs, "users"), LoginUsername(req[p].username))
       IN resp' = [resp EXCEPT ![p] =
            IF Refused(cs) THEN Reply(500, <<>>)
            ELSE LoginReply(userQuery, req[p].password)]
  /\ pc' = [pc EXCEPT ![p] = "done"]
  /\ UNCHANGED <<db, seqs, pool, held, req, loc, ins, pre>>

\* ---- forum: values of request fields ----
\* ids of the registered users; 0 is a missing id (falsy)
UserIds == {1, 2}
RoomNames == {"", "sala"}
Contents == {"", "oi"}

\* ids of the rooms that exist
RoomIds == {db.rooms[i].id : i \in DOMAIN db.rooms}

\* ---- POST /api/rooms ----
CreateRoom(p) ==
  /\ Arrives(p)
  /\ \E name \in RoomNames, creator_id \in {0} \cup UserIds :
       /\ req' = [req EXCEPT ![p] =
            [op |-> "room", name |-> name, description |-> "d", creator_id |-> creator_id]]
       /\ IF name = "" \/ creator_id = 0
            THEN /\ resp' = [resp EXCEPT ![p] = Reply(400, <<>>)]
                 /\ pc' = [pc EXCEPT ![p] = "done"]
            ELSE /\ pc' = [pc EXCEPT ![p] = "room_connect"]
                 /\ UNCHANGED resp
  /\ UNCHANGED <<db, seqs, pool, held, loc, ins, pre>>

CreateRoomConnect(p) ==
  /\ pc[p] = "room_connect"
  /\ \E cs \in IdleConns :
       /\ pool' = Take(cs)
       /\ held' = [held EXCEPT ![p] = <<cs>>]
  /\ pc' = [pc EXCEPT ![p] = "room_begin"]
  /\ UNCHANGED <<db, seqs, req, loc, resp, ins, pre>>

CreateRoomBegin(p) ==
  /\ pc[p] = "room_begin"
  /\ LET client == held[p][1] IN
       IF Refused(client)
         THEN /\ pc' = [pc EXCEPT ![p] = "room_rollback"]
              /\ UNCHANGED held
         ELSE /\ held' = [held EXCEPT ![p] = <<ExecBegin(client)>>]
              /\ pc' = [pc EXCEPT ![p] = "room_insert_room"]
  /\ UNCHANGED <<db, seqs, pool, req, loc, resp, ins, pre>>

CreateRoomInsertRoom(p) ==
  /\ pc[p] = "room_insert_room"
  /\ LET client == held[p][1]
         row == [id |-> seqs.rooms + 1, name |-> req[p].name,
                 description |-> req[p].description, creator_id |-> req[p].creator_id]
     IN IF Refused(client)
          THEN /\ pc' = [pc EXCEPT ![p] = "room_rollback"]
               /\ UNCHANGED <<db, seqs, held, loc>>
          ELSE /\ held' = [held EXCEPT ![p] = <<InsertConn(client, "rooms", row)>>]
               /\ db' = InsertDb(db, client, "rooms", row)
               /\ seqs' = [seqs EXCEPT !.rooms = @ + 1]
               /\ loc' = [loc EXCEPT ![p] = [id |-> row.id, row |-> row]]
               /\ pc' = [pc EXCEPT ![p] = "room_insert_member"]
  /\ UNCHANGED <<pool, req, resp, ins, pre>>

CreateRoomInsertMember(p) ==
  /\ pc[p] = "room_insert_member"
  /\ LET client == held[p][1]
         row == [room_id |-> loc[p].row.id, user_id |-> req[p].creator_id]
     IN IF Refused(client)
          THEN /\ pc' = [pc EXCEPT ![p] = "room_rollback"]
               /\ UNCHANGED <<db, held>>
          ELSE /\ held' = [held EXCEPT ![p] = <<InsertConn(client, "room_members", row)>>]
               /\ db' = InsertDb(db, client, "room_members", row)
               /\ pc' = [pc EXCEPT ![p] = "room_commit"]
  /\ UNCHANGED <<seqs, pool, req, loc, resp, ins, pre>>

\* the store refuses one of the two INSERTs (a constraint is violated, the
\* statement times out): the statement throws and the transaction is aborted
CreateRoomInsertFails(p) ==
  /\ pc[p] \in {"room_insert_room", "room_insert_member"}
  /\ held' = [held EXCEPT ![p] = <<Abort(held[p][1])>>]
  /\ pc' = [pc EXCEPT ![p] = "room_rollback"]
  /\ UNCHANGED <<db, seqs, pool, req, loc, resp, ins, pre>>

CreateRoomCommit(p) ==
  /\ pc[p] = "room_commit"
  /\ LET client == held[p][1] IN
       /\ db' = CommitDb(db, client)
       /\ ins' = [ins EXCEPT ![p] = @ \o CommitTables(client)]
       /\ pool' = Put(pool, ExecRollback(client))
  /\ held' = [held EXCEPT ![p] = <<>>]
  /\ resp' = [resp EXCEPT ![p] = Reply(201, loc[p].row)]
  /\ pc' = [pc EXCEPT ![p] = "done"]
  /\ UNCHANGED <<seqs, req, loc, pre>>

CreateRoomRollback(p) ==
  /\ pc[p] = "room_rollback"
  /\ pool' = Put(pool, ExecRollback(held[p][1]))
  /\ held' = [held EXCEPT ![p] = <<>>]
  /\ resp' = [resp EXCEPT ![p] = Reply(500, <<>>)]
  /\ pc' = [pc EXCEPT ![p] = "done"]
  /\ UNCHANGED <<db, seqs, req, loc, ins, pre>>

\* ---- POST /api/rooms/:roomId/join ----
JoinRoom(p) ==
  /\ Arrives(p)
  /\ \E roomId \in RoomIds, user_id \in {0} \cup UserIds :
       /\ req' = [req EXCEPT ![p] = [op |-> "join", roomId |-> roomId, user_id |-> user_id]]
       /\ pre' = [pre EXCEPT ![p] = [NoPre EXCEPT !.member = IsMember(roomId, user_id),
                                                  !.joined = JoinCompleted(roomId, user_id)]]
       /\ IF user_id = 0
            THEN /\ resp' = [resp EXCEPT ![p] = Reply(400, <<>>)]
                 /\ pc' = [pc EXCEPT ![p] = "done"]
            ELSE /\ pc' = [pc EXCEPT ![p] = "join_select"]
                 /\ UNCHANGED resp
  /\ UNCHANGED <<db, seqs, pool, held, loc, ins>>

ExistingMemberNone(rows, r) == <<>>

\* the rows the membership check of a join finds
ExistingMember(rows, r) == SelectMembers(rows, r.roomId, r.user_id)

JoinRoomSelect(p) ==
  /\ pc[p] = "join_select"
  /\ \E cs \in IdleConns :
       IF Refused(cs)
         THEN /\ resp' = [resp EXCEPT ![p] = Reply(500, <<>>)]
              /\ pc' = [pc EXCEPT ![p] = "done"]
         ELSE IF Len(ExistingMember(Visible(cs, "room_members"), req[p])) > 0
           THEN /\ resp' = [resp EXCEPT ![p] = Reply(200, "User is already a member")]
                /\ pc' = [pc EXCEPT ![p] = "done"]
           ELSE /\ pc' = [pc EXCEPT ![p] = "join_insert"]
                /\ UNCHANGED resp
  /\ UNCHANGED <<db, seqs, pool, held, req, loc, ins, pre>>

\* unique constraint on room_members (room_id, user_id)
MembersUniqueViolated(cs, row) ==
  Len(SelectMembers(Visible(cs, "room_members"), row.room_id, row.user_id)) > 0

MembersUniqueWaits(p, cs, row) ==
  \E other \in OtherConns(p, cs) :
    Len(SelectMembers(PendRows(other.pend, "room_members"), row.room_id, row.user_id)) > 0

JoinRoomInsert(p) ==
  /\ pc[p] = "join_insert"
  /\ \E cs \in IdleConns :
       LET row == [room_id |-> req[p].roomId, user_id |-> req[p].user_id] IN
       /\ ~MembersUniqueWaits(p, cs, row)
       /\ IF Refused(cs)
            THEN /\ resp' = [resp EXCEPT ![p] = Reply(500, <<>>)]
                 /\ UNCHANGED <<db, pool, ins>>
            ELSE IF MembersUniqueViolated(cs, row)
              THEN /\ pool' = Put(Take(cs), Abort(cs))
                   /\ resp' = [resp EXCEPT ![p] = Reply(500, <<>>)]
                   /\ UNCHANGED <<db, ins>>
              ELSE /\ pool' = Put(Take(cs), InsertConn(cs, "room_members", row))
                   /\ db' = InsertDb(db, cs, "room_members", row)
                   /\ ins' = [ins EXCEPT ![p] = @ \o InsertTables(cs, "room_members")]
                   /\ resp' = [resp EXCEPT ![p] = Reply(200, "Successfully joined room")]
  /\ pc' = [pc EXCEPT ![p] = "done"]
  /\ UNCHANGED <<seqs, held, req, loc, pre>>

\* ---- POST /api/rooms/:roomId/messages ----
SendMessage(p) ==
  /\ Arrives(p)
  /\ \E roomId \in RoomIds, sender_id \in {0} \cup UserIds, content \in Contents :
       /\ req' = [req EXCEPT ![p] =
            [op |-> "send", roomId |-> roomId, sender_id |-> sender_id, content |-> content]]
       /\ pre' = [pre EXCEPT ![p] = [NoPre EXCEPT !.member = IsMember(roomId, sender_id),
                                                  !.joined = JoinCompleted(roomId, sender_id)]]
       /\ IF sender_id = 0 \/ content = ""
            THEN /\ resp' = [resp EXCEPT ![p] = Reply(400, <<>>)]
                 /\ pc' = [pc EXCEPT ![p] = "done"]
            ELSE /\ pc' = [pc EXCEPT ![p] = "send_select"]
                 /\ UNCHANGED resp
  /\ UNCHANGED <<db, seqs, pool, held, loc, ins>>

MemberCheckByRoom(rows, r) == SelectSeq(rows, LAMBDA m : m.room_id = r.roomId)

MemberCheckBySender(rows, r) == SelectSeq(rows, LAMBDA m : m.user_id = r.sender_id)

\* the rows the membership check of a send finds
MemberCheck(rows, r) == SelectMembers(rows, r.roomId, r.sender_id)

SendMessageSelect(p) ==
  /\ pc[p] = "send_select"
  /\ \E cs \in IdleConns :
       IF Refused(cs)
         THEN /\ resp' = [resp EXCEPT ![p] = Reply(500, <<>>)]
              /\ pc' = [pc EXCEPT ![p] = "done"]
         ELSE IF Len(MemberCheck(Visible(cs, "room_members"), req[p])) = 0
           THEN /\ resp' = [resp EXCEPT ![p] = Reply(403, <<>>)]
                /\ pc' = [pc EXCEPT ![p] = "done"]
           ELSE /\ pc' = [pc EXCEPT ![p] = "send_insert"]
                /\ UNCHANGED resp
  /\ UNCHANGED <<db, seqs, pool, held, req, loc, ins, pre>>

\* the latest timestamp of the table (0 when it is empty)
LastTimestamp(rows) == IF rows = <<>> THEN 0 ELSE rows[Len(rows)].timestamp

SendMessageInsert(p) ==
  /\ pc[p] = "send_insert"
  /\ \E cs \in IdleConns :
       \* the store stamps the row with its clock, which never runs backwards:
       \* the same instant as the last row or a later one
       \E ts \in {LastTimestamp(Visible(cs, "messages")), LastTimestamp(Visible(cs, "messages")) + 1} :
       LET row == [id |-> seqs.messages + 1, room_id |-> req[p].roomId,
                   sender_id |-> req[p].sender_id, content |-> req[p].content,
                   timestamp |-> ts] IN
       /\ ts > 0
       /\ IF Refused(cs)
            THEN /\ resp' = [resp EXCEPT ![p] = Reply(500, <<>>)]
                 /\ UNCHANGED <<db, seqs, pool, ins>>
            ELSE /\ pool' = Put(Take(cs), InsertConn(cs, "messages", row))
                 /\ db' = InsertDb(db, cs, "messages", row)
                 /\ seqs' = [seqs EXCEPT !.messages = @ + 1]
                 /\ ins' = [ins EXCEPT ![p] = @ \o InsertTables(cs, "messages")]
                 /\ resp' = [resp EXCEPT ![p] = Reply(201, row)]
  /\ pc' = [pc EXCEPT ![p] = "done"]
  /\ UNCHANGED <<held, req, loc, pre>>

\* ---- GET /api/rooms/:roomId/messages ----
DefaultLimit == 50

Limits == {[given |-> FALSE, n |-> 0]} \cup {[given |-> TRUE, n |-> k] : k \in 0..MaxLimit}

\* const { limit = 50 } = req.query
LimitOf(r) == IF r.limit.given THEN r.limit.n ELSE DefaultLimit

Min(a, b) == IF a < b THEN a ELSE b

\* rows without the one at position k
Without(rows, k) == SubSeq(rows, 1, k - 1) \o SubSeq(rows, k + 1, Len(rows))

RECURSIVE OrderByTimestampDesc(_)
\* the orders ORDER BY timestamp DESC may return the rows in: a row with the
\* latest timestamp first (rows with the same timestamp come in any order)
OrderByTimestampDesc(rows) ==
  IF rows = <<>> THEN {<<>>}
  ELSE UNION {{<<rows[k]>> \o rest : rest \in OrderByTimestampDesc(Without(rows, k))} :
                k \in {i \in DOMAIN rows :
                         \A j \in DOMAIN rows : rows[j].timestamp <= rows[i].timestamp}}

\* LIMIT $2
LimitRows(rows, l) == SubSeq(rows, 1, Min(l, Len(rows)))

ReverseNot(rows) == rows

\* Array.prototype.reverse
Reverse(rows) == [i \in 1..Len(rows) |-> rows[Len(rows) + 1 - i]]

ListMessages(p) ==
  /\ Arrives(p)
  /\ p <= MaxListings
  /\ \E roomId \in RoomIds, limit \in Limits :
       req' = [req EXCEPT ![p] = [op |-> "list", roomId |-> roomId, limit |-> limit]]
  /\ pc' = [pc EXCEPT ![p] = "list_query"]
  /\ UNCHANGED <<db, seqs, pool, held, loc, resp, ins, pre>>

ListMessagesQuery(p) ==
  /\ pc[p] = "list_query"
  /\ \E cs \in IdleConns :
       IF Refused(cs)
         THEN resp' = [resp EXCEPT ![p] = Reply(500, <<>>)]
         ELSE \E rows \in OrderByTimestampDesc(
                    SelectSeq(Visible(cs, "messages"), LAMBDA m : m.room_id = req[p].roomId)) :
                resp' = [resp EXCEPT ![p] = Reply(200, Reverse(LimitRows(rows, LimitOf(req[p]))))]
  /\ pc' = [pc EXCEPT ![p] = "done"]
  /\ UNCHANGED <<db, seqs, pool, held, req, loc, ins, pre>>

\* ---- POST /api/plants ----
\* JavaScript values of the body fields
JsUndefined == [type |-> "undefined"]
JsNull == [type |-> "null"]
JsString(v) == [type |-> "string", v |-> v]
JsNumber(v) == [type |-> "number", v |-> v]

\* !x
Falsy(x) ==
  \/ x.type \in {"undefined", "null"}
  \/ x.type = "string" /\ x.v = ""
  \/ x.type = "number" /\ x.v = 0

\* x || null
OrNull(x) == IF Falsy(x) THEN JsNull ELSE x

PlantRequests ==
  {[op |-> "plant", nome_cientifico |-> nc, nome_popular |-> np, detalhes |-> d,
    data_plantio |-> dp, fonte |-> f, usuario_id |-> u, latitude |-> la, longitude |-> lo] :
     nc \in {JsUndefined, JsString("Handroanthus")},
     np \in {JsString(""), JsString("Ipe")},
     d \in {JsString("flor")},
     dp \in {JsUndefined},
     f \in {JsString("")},
     u \in {JsNumber(1)},
     la \in {JsUndefined, JsNumber(-8)},
     lo \in {JsNumber(0), JsNumber(-35)}}

CoordinateMissing(x) == Falsy(x)

CreatePlant(p) ==
  /\ Arrives(p)
  /\ p <= MaxPlants
  /\ \E r \in PlantRequests :
       /\ req' = [req EXCEPT ![p] = r]
       /\ IF Falsy(r.nome_cientifico) /\ Falsy(r.nome_popular)
            THEN /\ resp' = [resp EXCEPT ![p] = Reply(400, "Pelo menos o nome cientifico ou popular deve ser fornecido")]
                 /\ pc' = [pc EXCEPT ![p] = "done"]
            ELSE IF CoordinateMissing(r.latitude) \/ CoordinateMissing(r.longitude)
              THEN /\ resp' = [resp EXCEPT ![p] = Reply(400, "Coordenadas geograficas sao obrigatorias")]
                   /\ pc' = [pc EXCEPT ![p] = "done"]
              ELSE /\ pc' = [pc EXCEPT ![p] = "plant_insert"]
                   /\ UNCHANGED resp
  /\ UNCHANGED <<db, seqs, pool, held, loc, ins, pre>>

\* the row the INSERT ... RETURNING * stores and returns
PlantRow(id, r) ==
  [id |-> id,
   nome_cientifico |-> OrNull(r.nome_cientifico),
   nome_popular |-> OrNull(r.nome_popular),
   detalhes |-> OrNull(r.detalhes),
   data_plantio |-> OrNull(r.data_plantio),
   fonte |-> OrNull(r.fonte),
   usuario_id |-> OrNull(r.usuario_id),
   latitude |-> r.latitude,
   longitude |-> r.longitude]

CreatePlantInsert(p) ==
  /\ pc[p] = "plant_insert"
  /\ \E cs \in IdleConns :
       LET row == PlantRow(seqs.plantas + 1, req[p]) IN
       IF Refused(cs)
         THEN /\ resp' = [resp EXCEPT ![p] = Reply(500, <<>>)]
              /\ UNCHANGED <<db, seqs, pool, ins>>
         ELSE /\ pool' = Put(Take(cs), InsertConn(cs, "plantas", row))
              /\ db' = InsertDb(db, cs, "plantas", row)
              /\ seqs' = [seqs EXCEPT !.plantas = @ + 1]
              /\ ins' = [ins EXCEPT ![p] = @ \o InsertTables(cs, "plantas")]
              /\ resp' = [resp EXCEPT ![p] = Reply(201, row)]
  /\ pc' = [pc EXCEPT ![p] = "done"]
  /\ UNCHANGED <<held, req, loc, pre>>

\* ---- specification of the authentication endpoints ----
Init ==
  /\ db = EmptyDb
  /\ seqs = EmptySeqs
  /\ pool = CleanPool
  /\ held = [p \in Proc |-> <<>>]
  /\ pc = [p \in Proc |-> "idle"]
  /\ req = [p \in Proc |-> NoReq]
  /\ loc = [p \in Proc |-> NoLoc]
  /\ resp = [p \in Proc |-> NoResp]
  /\ ins = [p \in Proc |-> <<>>]
  /\ pre = [p \in Proc |-> NoPre]

NextAuth ==
  \E p \in Proc :
    \/ Register(p)
    \/ RegisterConnect(p)
    \/ RegisterBegin(p)
    \/ RegisterSelect(p)
    \/ RegisterInsert(p)
    \/ RegisterCommit(p)
    \/ RegisterRollback(p)
    \/ Login(p)
    \/ LoginQuery(p)

SpecAuth == Init /\ [][NextAuth]_vars

\* ---- specification of the forum endpoints ----
\* two users have registered, the first has created a room
RegisteredUsers ==
  <<[id |-> 1, username |-> "ana", password |-> "p"],
    [id |-> 2, username |-> "bia", password |-> "q"]>>

FirstRoom == <<[id |-> 1, name |-> "sala", description |-> "d", creator_id |-> 1]>>

FirstRoomMembers == <<[room_id |-> 1, user_id |-> 1]>>

InitForum ==
  /\ db = [EmptyDb EXCEPT !.users = RegisteredUsers, !.rooms = FirstRoom,
                          !.room_members = FirstRoomMembers]
  /\ seqs = [EmptySeqs EXCEPT !.users = 2, !.rooms = 1]
  /\ pool = CleanPool
  /\ held = [p \in Proc |-> <<>>]
  /\ pc = [p \in Proc |-> "idle"]
  /\ req = [p \in Proc |-> NoReq]
  /\ loc = [p \in Proc |-> NoLoc]
  /\ resp = [p \in Proc |-> NoResp]
  /\ ins = [p \in Proc |-> <<>>]
  /\ pre = [p \in Proc |-> NoPre]

NextForum ==
  \E p \in Proc :
    \/ CreateRoom(p)
    \/ CreateRoomConnect(p)
    \/ CreateRoomBegin(p)
    \/ CreateRoomInsertRoom(p)
    \/ CreateRoomInsertMember(p)
    \/ CreateRoomInsertFails(p)
    \/ CreateRoomCommit(p)
    \/ CreateRoomRollback(p)
    \/ JoinRoom(p)
    \/ JoinRoomSelect(p)
    \/ JoinRoomInsert(p)
    \/ SendMessage(p)
    \/ SendMessageSelect(p)
    \/ SendMessageInsert(p)

SpecForum == InitForum /\ [][NextForum]_vars

\* ---- specification of the message listing ----
\* two rooms, each with its creator as member
TwoRooms ==
  <<[id |-> 1, name |-> "sala", description |-> "d", creator_id |-> 1],
    [id |-> 2, name |-> "sala", description |-> "d", creator_id |-> 2]>>

TwoRoomsMembers == <<[room_id |-> 1, user_id |-> 1], [room_id |-> 2, user_id |-> 2]>>

\* the Message tables the sends of the two creators can have produced: ids in
\* order of insertion, each timestamp that of the row before it or a later one
MessageTables ==
  UNION {{[i \in 1..n |->
             [id |-> i, room_id |-> room[i], sender_id |-> room[i], content |-> "oi",
              timestamp |-> 1 + Cardinality({j \in 2..i : later[j]})]] :
            room \in [1..n -> {1, 2}], later \in [2..n -> BOOLEAN]} : n \in 0..MaxMessages}

InitList ==
  /\ db \in {[EmptyDb EXCEPT !.users = RegisteredUsers, !.rooms = TwoRooms,
                              !.room_members = TwoRoomsMembers, !.messages = t] :
              t \in MessageTables}
  /\ seqs = [EmptySeqs EXCEPT !.users = 2, !.rooms = 2, !.messages = Len(db.messages)]
  /\ pool = CleanPool
  /\ held = [p \in Proc |-> <<>>]
  /\ pc = [p \in Proc |-> "idle"]
  /\ req = [p \in Proc |-> NoReq]
  /\ loc = [p \in Proc |-> NoLoc]
  /\ resp = [p \in Proc |-> NoResp]
  /\ ins = [p \in Proc |-> <<>>]
  /\ pre = [p \in Proc |-> NoPre]

NextList ==
  \E p \in Proc :
    \/ ListMessages(p)
    \/ ListMessagesQuery(p)

SpecList == InitList /\ [][NextList]_vars

\* ---- specification of the plant registration ----
NextPlants ==
  \E p \in Proc :
    \/ CreatePlant(p)
    \/ CreatePlantInsert(p)

SpecPlants == InitForum /\ [][NextPlants]_vars

\* ---- properties of the authentication endpoints ----
Done(p, op) == pc[p] = "done" /\ req[p].op = op

\* C1: no two committed User rows have usernames that are equal after
\* lowercasing, whatever the interleaving of the registrations.
UsernameUniqueCaseInsensitive ==
  \A i, j \in DOMAIN db.users :
    i # j => toLowerCase(db.users[i].username) # toLowerCase(db.users[j].username)

\* two registrations of the same lowercased username raced: one committed,
\* the other's INSERT was refused by the store and rolled back
RaceLoserRolledBack ==
  \E p, q \in Proc :
    /\ Done(p, "register") /\ Done(q, "register")
    /\ toLowerCase(req[p].username) = toLowerCase(req[q].username)
    /\ resp[p].status = 201 /\ resp[q].status = 500
    /\ Len(db.users) = 1

\* C2: a registration whose lowercased username is the username of a User row
\* that exists when the request arrives is answered 400, and no step of it
\* changes the User rows.
TakenUsernameRejected ==
  /\ [](\A p \in Proc :
         (Done(p, "register") /\ pre[p].taken) => (resp[p].status = 400 /\ ins[p] = <<>>))
  /\ [][\A p \in Proc :
         (req'[p].op = "register" /\ pre'[p].taken /\ pc'[p] # pc[p])
           => db'.users = db.users]_vars

\* a taken username, spelled with another case, was rejected after the lookup
TakenUsernameRejectedSeen ==
  \E p \in Proc :
    /\ Done(p, "register") /\ pre[p].taken
    /\ req[p].password # ""
    /\ req[p].username # toLowerCase(req[p].username)
    /\ resp[p].status = 400

\* the outcome of a login, read off the User rows
LoginOutcome(users, r) ==
  IF r.username = "" \/ r.password = "" THEN Reply(400, <<>>)
  ELSE IF ~\E i \in DOMAIN users : users[i].username = toLowerCase(r.username)
    THEN Reply(404, <<>>)
  ELSE LET u == users[CHOOSE i \in DOMAIN users : users[i].username = toLowerCase(r.username)]
       IN IF u.password # r.password THEN Reply(401, <<>>)
          ELSE Reply(200, [id |-> u.id, username |-> u.username])

\* C10: a login is answered 400 when username or password is missing, else 404
\* when no User row has the lowercased username, else 401 when the password
\* differs from the stored one, else 200 with that user's id and username.
LoginOutcomeCorrect ==
  [][\A p \in Proc :
       (req'[p].op = "login" /\ pc[p] # "done" /\ pc'[p] = "done")
         => resp'[p] = LoginOutcome(db.users, req'[p])]_vars

\* a login with the right password and a username in another case succeeded
LoginSucceeded ==
  \E p \in Proc :
    /\ Done(p, "login")
    /\ req[p].username # toLowerCase(req[p].username)
    /\ resp[p].status = 200
    /\ resp[p].body.username = toLowerCase(req[p].username)

\* ---- properties of the forum endpoints ----
RoomExists(roomId) == \E i \in DOMAIN db.rooms : db.rooms[i].id = roomId

IsCreator(roomId, userId) ==
  \E i \in DOMAIN db.rooms : db.rooms[i].id = roomId /\ db.rooms[i].creator_id = userId

\* C3: in every committed state of the store, a room created by POST /api/rooms
\* exists exactly when the membership row of its creator exists, and after a
\* failed creation neither row is there.
RoomCreationAtomic ==
  /\ \A i \in DOMAIN db.rooms : IsMember(db.rooms[i].id, db.rooms[i].creator_id)
  /\ \A i \in DOMAIN db.room_members : RoomExists(db.room_members[i].room_id)
  /\ \A p \in Proc :
       (req[p].op = "room" /\ loc[p].id # 0) =>
         /\ RoomExists(loc[p].id) <=> IsMember(loc[p].id, req[p].creator_id)
         /\ (pc[p] = "done" /\ resp[p].status # 201) =>
              (~RoomExists(loc[p].id) /\ ~IsMember(loc[p].id, req[p].creator_id))

\* a creation failed after its room INSERT had run, beside one that committed
RoomCreationFailedHalfway ==
  \E p, q \in Proc :
    /\ Done(p, "room") /\ resp[p].status = 500 /\ loc[p].id # 0
    /\ Done(q, "room") /\ resp[q].status = 201 /\ RoomExists(loc[q].id)

\* C4: every committed Message row's (room_id, sender_id) pair is a row of
\* RoomMember, whatever the interleaving of room creations, joins and sends.
MessageSenderIsMember ==
  \A i \in DOMAIN db.messages : IsMember(db.messages[i].room_id, db.messages[i].sender_id)

\* a user who joined a room (not its creator) has a message in it
JoinedMemberPosted ==
  \E i \in DOMAIN db.messages :
    /\ IsMember(db.messages[i].room_id, db.messages[i].sender_id)
    /\ ~IsCreator(db.messages[i].room_id, db.messages[i].sender_id)

\* C5: a send with sender_id and content present is answered 403 and adds no
\* Message row while the pair is not in RoomMember; once a join for the pair
\* has completed, it is answered 201 and adds exactly one Message row.
SendForbiddenUntilJoined ==
  \A p \in Proc :
    (Done(p, "send") /\ req[p].sender_id # 0 /\ req[p].content # "") =>
      /\ ~IsMember(req[p].roomId, req[p].sender_id)
           => (resp[p].status = 403 /\ ins[p] = <<>>)
      /\ (pre[p].joined \/ pre[p].member)
           => (resp[p].status = 201 /\ ins[p] = <<"messages">>)

\* a send that arrived after the sender's join had completed was answered 201
SendAfterJoinAccepted ==
  \E p, q \in Proc :
    /\ Done(q, "join") /\ resp[q].body = "Successfully joined room"
    /\ Done(p, "send") /\ pre[p].joined
    /\ req[p].roomId = req[q].roomId /\ req[p].sender_id = req[q].user_id
    /\ resp[p].status = 201

\* C6: a join that arrives after a join of the same room and user has completed
\* is answered 200, writes nothing, and leaves RoomMember as it was.
JoinIdempotent ==
  /\ [](\A p \in Proc :
         (Done(p, "join") /\ req[p].user_id # 0 /\ pre[p].joined)
           => (resp[p].status = 200 /\ ins[p] = <<>>))
  /\ [][\A p \in Proc :
         (req'[p].op = "join" /\ pre'[p].joined /\ pc'[p] # pc[p])
           => db'.room_members = db.room_members]_vars

\* the second join of a user who had joined (not the creator) was answered 200
SecondJoinAnswered ==
  \E p \in Proc :
    /\ Done(p, "join") /\ req[p].user_id # 0 /\ pre[p].joined
    /\ ~IsCreator(req[p].roomId, req[p].user_id)
    /\ IsMember(req[p].roomId, req[p].user_id)
    /\ resp[p].body = "User is already a member"

\* C7: RoomMember holds at most one row per (room_id, user_id) pair and every
\* join request with a user_id is answered 200, whatever the interleaving of
\* joins and room creations.
ConcurrentJoinsAllSucceed ==
  /\ \A i, j \in DOMAIN db.room_members : i # j => db.room_members[i] # db.room_members[j]
  /\ \A p \in Proc : (Done(p, "join") /\ req[p].user_id # 0) => resp[p].status = 200

\* ---- properties of the message listing ----
RoomMessages(roomId) ==
  {db.messages[i] : i \in {j \in DOMAIN db.messages : db.messages[j].room_id = roomId}}

\* C8: a listing of a room holding n messages with limit L (50 when none is
\* supplied) returns exactly min(L, n) messages of that room, the ones with the
\* latest timestamps, ordered oldest first.
ListReturnsLatestOldestFirst ==
  \A p \in Proc :
    Done(p, "list") =>
      LET b == resp[p].body
          R == RoomMessages(req[p].roomId)
          L == IF req[p].limit.given THEN req[p].limit.n ELSE 50
          returned == {b[i] : i \in DOMAIN b}
      IN /\ resp[p].status = 200
         /\ Len(b) = (IF L < Cardinality(R) THEN L ELSE Cardinality(R))
         /\ returned \subseteq R
         /\ Cardinality(returned) = Len(b)
         /\ \A i, j \in DOMAIN b : i < j => b[i].timestamp <= b[j].timestamp
         /\ \A m \in R \ returned : \A i \in DOMAIN b : m.timestamp <= b[i].timestamp

\* limit 2 on a room of three messages: the two latest came back, the older
\* one first
ListOfTwoLatest ==
  \E p \in Proc :
    /\ Done(p, "list") /\ req[p].limit.given /\ req[p].limit.n = 2
    /\ Cardinality(RoomMessages(req[p].roomId)) = 3
    /\ Len(resp[p].body) = 2
    /\ resp[p].body[1].timestamp < resp[p].body[2].timestamp

\* ---- properties of the plant registration ----
IsNumber(x) == x.type = "number"

\* C9: a plant registration with both names empty is answered 400 and inserts
\* nothing; with a name and with latitude and longitude both numeric (0
\* included) it inserts exactly one Plant row and is answered 201 with a row
\* whose optional fields are the submitted values or null.
PlantCreatedWithNumericCoordinates ==
  \A p \in Proc :
    Done(p, "plant") =>
      /\ (Falsy(req[p].nome_cientifico) /\ Falsy(req[p].nome_popular))
           => (resp[p].status = 400 /\ ins[p] = <<>>)
      /\ (/\ ~(Falsy(req[p].nome_cientifico) /\ Falsy(req[p].nome_popular))
          /\ IsNumber(req[p].latitude) /\ IsNumber(req[p].longitude))
           => /\ resp[p].status = 201
              /\ ins[p] = <<"plantas">>
              /\ \A f \in {"nome_cientifico", "nome_popular", "detalhes",
                           "data_plantio", "fonte", "usuario_id"} :
                   resp[p].body[f] \in {req[p][f], JsNull}

\* ---- GET /api/especies ----
\* a string is the sequence of the pieces it was concatenated from; <<>> is a
\* query parameter that is missing or empty (both falsy)
SearchValues == {<<>>, <<"ipe">>, <<"' OR '1'='1">>}
FamiliaValues == {<<>>, <<"Bignoniaceae">>}
RpaValues == {<<>>, <<"3">>}

\* if (x), for a query parameter
Supplied(x) == x # <<>>

\* the pieces of the SQL text: a literal of the source, or the number a
\* template literal interpolates
Sql(s) == [kind |-> "sql", v |-> s]
Index(n) == [kind |-> "index", v |-> n]

NextIndexSame(params) == Len(params)

\* params.length + 1
NextIndex(params) == Len(params) + 1

NameCondition(params) ==
  <<Sql("(nome_popular ILIKE $"), Index(NextIndex(params)),
    Sql(" OR nome_cientifico ILIKE $"), Index(NextIndex(params)), Sql(")")>>

FamiliaCondition(params) == <<Sql("familia = $"), Index(NextIndex(params))>>

RpaCondition(params) == <<Sql("rpa = $"), Index(NextIndex(params))>>

\* `%${search}%`
Pattern(search) == <<"%">> \o search \o <<"%">>

\* conditions.push(condition); params.push(value)
Push(b, condition, value) ==
  [params |-> Append(b.params, value), conditions |-> Append(b.conditions, condition)]

\* params and conditions after the three tests of the first branch
TombadaConditions(r) ==
  LET b0 == [params |-> <<>>, conditions |-> <<>>]
      b1 == IF Supplied(r.search)
              THEN Push(b0, NameCondition(b0.params), Pattern(r.search)) ELSE b0
      b2 == IF Supplied(r.familia)
              THEN Push(b1, FamiliaCondition(b1.params), r.familia) ELSE b1
  IN IF Supplied(r.rpa) THEN Push(b2, RpaCondition(b2.params), r.rpa) ELSE b2

\* conditions.length = 0, then the two tests of the second branch; params
\* keeps the entries of the first branch
CensoConditions(r, params) ==
  LET b0 == [params |-> params, conditions |-> <<>>]
      b1 == IF Supplied(r.search)
              THEN Push(b0, NameCondition(b0.params), Pattern(r.search)) ELSE b0
  IN IF Supplied(r.rpa) THEN Push(b1, RpaCondition(b1.params), r.rpa) ELSE b1

RECURSIVE JoinAnd(_)
\* conditions.join(' AND ')
JoinAnd(conditions) ==
  IF Len(conditions) = 0 THEN <<>>
  ELSE IF Len(conditions) = 1 THEN conditions[1]
  ELSE conditions[1] \o <<Sql(" AND ")>> \o JoinAnd(Tail(conditions))

\* if (conditions.length > 0) query += ' AND ' + conditions.join(' AND ')
AndConditions(conditions) ==
  IF Len(conditions) > 0 THEN <<Sql(" AND ")>> \o JoinAnd(conditions) ELSE <<>>

SelectTombadas == Sql("SELECT 'arvore_tombada' AS tipo, ... FROM arvores_tombadas WHERE 1=1")
UnionSelectCenso ==
  Sql("UNION ALL SELECT 'censo' AS tipo, ... FROM censo_arboreo WHERE nome_cientifico IS NOT NULL")
OrderByNomePopular == Sql(" ORDER BY nome_popular")

\* the query text and the params the handler passes to pool.query
BuildQuery(r) ==
  LET t == TombadaConditions(r)
      c == CensoConditions(r, t.params)
  IN [query |-> <<SelectTombadas>> \o AndConditions(t.conditions)
                  \o <<UnionSelectCenso>> \o AndConditions(c.conditions)
                  \o <<OrderByNomePopular>>,
      params |-> c.params]

\* ---- the species tables (no handler writes them) ----
\* SQL NULL
Null == <<>>

ArvoresTombadas ==
  <<[id |-> 1, nome_cientifico |-> <<"Handroanthus">>, nome_popular |-> <<"Ipe">>,
     familia |-> <<"Bignoniaceae">>, latitude |-> -8, longitude |-> -35, rpa |-> <<"3">>],
    [id |-> 2, nome_cientifico |-> <<"Paubrasilia">>, nome_popular |-> <<"Pau-brasil">>,
     familia |-> <<"Fabaceae">>, latitude |-> -8, longitude |-> -34, rpa |-> <<"1">>]>>

CensoArboreo ==
  <<[id |-> 1, nome_cientifico |-> <<"Handroanthus">>, nome_popular |-> <<"Ipe-roxo">>,
     y_wgs84 |-> -8, x_wgs84 |-> -35, altura |-> 7, dap |-> 20, rpa |-> <<"3">>],
    [id |-> 2, nome_cientifico |-> Null, nome_popular |-> <<"Ipe">>,
     y_wgs84 |-> -8, x_wgs84 |-> -34, altura |-> 5, dap |-> 12, rpa |-> <<"3">>]>>

\* text ILIKE pattern, for the names of the tables above
ILike(text, pattern) ==
  /\ text # Null
  /\ Len(pattern) = 3 /\ pattern[1] = "%" /\ pattern[3] = "%"
  /\ pattern[2] = "ipe" /\ text[1] \in {"Ipe", "Ipe-roxo"}

\* the numbers of the placeholders that follow the literal s in the text ts
PlaceholdersAfter(ts, s) ==
  {ts[i + 1].v : i \in {j \in 1..(Len(ts) - 1) :
      ts[j].kind = "sql" /\ ts[j].v = s /\ ts[j + 1].kind = "index"}}

\* the numbers of all placeholders of the text
Placeholders(ts) == {ts[i].v : i \in {j \in DOMAIN ts : ts[j].kind = "index"}}

\* the store refuses a statement whose placeholders are not $1..$n for the n
\* parameters bound to it
StatementRefused(query, params) == Placeholders(query) # 1..Len(params)

\* the WHERE conditions of one branch, evaluated on a row
RowMatches(row, ts, params) ==
  /\ LET ps == PlaceholdersAfter(ts, "(nome_popular ILIKE $")
         cs == PlaceholdersAfter(ts, " OR nome_cientifico ILIKE $")
     IN \/ ps \cup cs = {}
        \/ \E k \in ps : ILike(row.nome_popular, params[k])
        \/ \E k \in cs : ILike(row.nome_cientifico, params[k])
  /\ \A k \in PlaceholdersAfter(ts, "familia = $") : row.familia = params[k]
  /\ \A k \in PlaceholdersAfter(ts, "rpa = $") : row.rpa = params[k]

\* the position of UNION ALL in the text
UnionAt(query) ==
  CHOOSE i \in DOMAIN query : query[i].kind = "sql" /\ query[i].v = UnionSelectCenso.v

TombadaRow(a) ==
  [tipo |-> "arvore_tombada", id |-> a.id, nome_cientifico |-> a.nome_cientifico,
   nome_popular |-> a.nome_popular, familia |-> a.familia, latitude |-> a.latitude,
   longitude |-> a.longitude, altura |-> Null, dap |-> Null, rpa |-> a.rpa]

CensoRow(c) ==
  [tipo |-> "censo", id |-> c.id, nome_cientifico |-> c.nome_cientifico,
   nome_popular |-> c.nome_popular, familia |-> Null, latitude |-> c.y_wgs84,
   longitude |-> c.x_wgs84, altura |-> c.altura, dap |-> c.dap, rpa |-> c.rpa]

\* the rows of the two branches, before ORDER BY
UnionRows(query, params) ==
  LET u == UnionAt(query)
      tombadas == SelectSeq(ArvoresTombadas,
                    LAMBDA a : RowMatches(a, SubSeq(query, 1, u - 1), params))
      censo == SelectSeq(CensoArboreo,
                 LAMBDA c : c.nome_cientifico # Null
                            /\ RowMatches(c, SubSeq(query, u + 1, Len(query)), params))
  IN [i \in DOMAIN tombadas |-> TombadaRow(tombadas[i])]
       \o [i \in DOMAIN censo |-> CensoRow(censo[i])]

\* the place of a popular name of the tables above in the collation
NameRank(name) ==
  IF name = <<"Ipe">> THEN 1 ELSE IF name = <<"Ipe-roxo">> THEN 2 ELSE 3

RECURSIVE OrderByName(_)
\* the orders ORDER BY nome_popular may return the rows in
OrderByName(rows) ==
  IF rows = <<>> THEN {<<>>}
  ELSE UNION {{<<rows[k]>> \o rest : rest \in OrderByName(Without(rows, k))} :
                k \in {i \in DOMAIN rows :
                         \A j \in DOMAIN rows :
                           NameRank(rows[i].nome_popular) <= NameRank(rows[j].nome_popular)}}

Especies(p) ==
  /\ Arrives(p)
  /\ \E search \in SearchValues, familia \in FamiliaValues, rpa \in RpaValues :
       LET r == [op |-> "especies", search |-> search, familia |-> familia, rpa |-> rpa] IN
       /\ req' = [req EXCEPT ![p] = r]
       /\ loc' = [loc EXCEPT ![p].row = BuildQuery(r)]
  /\ pc' = [pc EXCEPT ![p] = "especies_query"]
  /\ UNCHANGED <<db, seqs, pool, held, resp, ins, pre>>

EspeciesQuery(p) ==
  /\ pc[p] = "especies_query"
  /\ \E cs \in IdleConns :
       IF Refused(cs) \/ StatementRefused(loc[p].row.query, loc[p].row.params)
         THEN /\ resp' = [resp EXCEPT ![p] = Reply(500, <<>>)]
              /\ pool' = Put(Take(cs), Abort(cs))
         ELSE /\ \E rows \in OrderByName(UnionRows(loc[p].row.query, loc[p].row.params)) :
                   resp' = [resp EXCEPT ![p] = Reply(200, rows)]
              /\ UNCHANGED pool
  /\ pc' = [pc EXCEPT ![p] = "done"]
  /\ UNCHANGED <<db, seqs, held, req, loc, ins, pre>>

\* ---- specification of the species search ----
NextEspecies ==
  \E p \in Proc :
    \/ Especies(p)
    \/ EspeciesQuery(p)

SpecEspecies == InitForum /\ [][NextEspecies]_vars

\* ---- properties of the species search ----
\* the text of the first branch and of the second branch of a query
TombadaText(query) == SubSeq(query, 1, UnionAt(query) - 1)

CensoText(query) == SubSeq(query, UnionAt(query) + 1, Len(query))

\* the strings the caller sent
CallerStrings(r) ==
  {r.search[i] : i \in DOMAIN r.search} \cup {r.familia[i] : i \in DOMAIN r.familia}
    \cup {r.rpa[i] : i \in DOMAIN r.rpa}

NamePlaceholders(ts) ==
  PlaceholdersAfter(ts, "(nome_popular ILIKE $")
    \cup PlaceholdersAfter(ts, " OR nome_cientifico ILIKE $")

\* the literals a placeholder number may follow
PredicateLiterals ==
  {"(nome_popular ILIKE $", " OR nome_cientifico ILIKE $", "familia = $", "rpa = $"}

\* C11: for every subset of {search, familia, rpa} supplied, the SQL text holds
\* only literals of the source and placeholder numbers, no caller value; every
\* placeholder $k has 1 <= k <= Len(params) and params[k] is the value of the
\* filter its predicate names ('%search%' for the name predicate); every params
\* entry is referenced; the first branch carries the predicates of the supplied
\* search, familia and rpa, the second those of search and rpa and never familia.
QueryHoldsOnlyPlaceholders ==
  \A p \in Proc :
    (req[p].op = "especies" /\ pc[p] \in {"especies_query", "done"}) =>
      LET r == req[p]
          query == loc[p].row.query
          params == loc[p].row.params
      IN /\ \A i \in DOMAIN query :
              \/ query[i].kind = "sql" /\ query[i].v \notin CallerStrings(r)
              \/ /\ query[i].kind = "index"
                 /\ query[i].v \in 1..Len(params)
                 /\ i > 1 /\ query[i - 1].kind = "sql" /\ query[i - 1].v \in PredicateLiterals
         /\ \A k \in NamePlaceholders(query) : params[k] = <<"%">> \o r.search \o <<"%">>
         /\ \A k \in PlaceholdersAfter(query, "familia = $") : params[k] = r.familia
         /\ \A k \in PlaceholdersAfter(query, "rpa = $") : params[k] = r.rpa
         /\ 1..Len(params) \subseteq Placeholders(query)
         /\ (NamePlaceholders(TombadaText(query)) # {}) <=> Supplied(r.search)
         /\ (PlaceholdersAfter(TombadaText(query), "familia = $") # {}) <=> Supplied(r.familia)
         /\ (PlaceholdersAfter(TombadaText(query), "rpa = $") # {}) <=> Supplied(r.rpa)
         /\ (NamePlaceholders(CensoText(query)) # {}) <=> Supplied(r.search)
         /\ (PlaceholdersAfter(CensoText(query), "rpa = $") # {}) <=> Supplied(r.rpa)
         /\ PlaceholdersAfter(CensoText(query), "familia = $") = {}

\* a search with all three filters was answered with the row of each table it
\* selects: five params, the second branch numbered after the first
AllFiltersSearched ==
  \E p \in Proc :
    /\ Done(p, "especies")
    /\ Supplied(req[p].search) /\ Supplied(req[p].familia) /\ Supplied(req[p].rpa)
    /\ Len(loc[p].row.params) = 5
    /\ NamePlaceholders(CensoText(loc[p].row.query)) = {4}
    /\ PlaceholdersAfter(CensoText(loc[p].row.query), "rpa = $") = {5}
    /\ resp[p].status = 200 /\ Len(resp[p].body) = 2
    /\ resp[p].body[1].tipo = "arvore_tombada" /\ resp[p].body[2].tipo = "censo"

\* ---- POST /api/plants/:plantId/comments ----
PlantIds == {1}
Texts == {"", "bela"}

CommentFieldMissingNever(userId, text) == FALSE

\* !userId || !text
CommentFieldMissing(userId, text) == userId = 0 \/ text = ""

AddComment(p) ==
  /\ Arrives(p)
  /\ \E plantId \in PlantIds, userId \in {0} \cup UserIds, text \in Texts :
       /\ req' = [req EXCEPT ![p] =
            [op |-> "comment", plantId |-> plantId, userId |-> userId, text |-> text]]
       /\ IF CommentFieldMissing(userId, text)
            THEN /\ resp' = [resp EXCEPT ![p] = Reply(400, <<>>)]
                 /\ pc' = [pc EXCEPT ![p] = "done"]
            ELSE /\ pc' = [pc EXCEPT ![p] = "comment_insert"]
                 /\ UNCHANGED resp
  /\ UNCHANGED <<db, seqs, pool, held, loc, ins, pre>>

\* plant_id references a Plant row and user_id a User row
CommentReferencesViolated(cs, row) ==
  \/ ~\E i \in DOMAIN Visible(cs, "plantas") : Visible(cs, "plantas")[i].id = row.plant_id
  \/ ~\E i \in DOMAIN Visible(cs, "users") : Visible(cs, "users")[i].id = row.user_id

\* (SELECT username FROM users WHERE id = $2)
AuthorOf(rows, userId) ==
  LET found == SelectSeq(rows, LAMBDA u : u.id = userId)
  IN IF found = <<>> THEN "" ELSE found[1].username

AddCommentInsert(p) ==
  /\ pc[p] = "comment_insert"
  /\ \E cs \in IdleConns :
       LET row == [id |-> seqs.plant_comments + 1, plant_id |-> req[p].plantId,
                   user_id |-> req[p].userId, comment_text |-> req[p].text] IN
       IF Refused(cs)
         THEN /\ resp' = [resp EXCEPT ![p] = Reply(500, <<>>)]
              /\ UNCHANGED <<db, seqs, pool, ins>>
         ELSE IF CommentReferencesViolated(cs, row)
           THEN /\ pool' = Put(Take(cs), Abort(cs))
                /\ seqs' = [seqs EXCEPT !.plant_comments = @ + 1]
                /\ resp' = [resp EXCEPT ![p] = Reply(500, <<>>)]
                /\ UNCHANGED <<db, ins>>
           ELSE /\ pool' = Put(Take(cs), InsertConn(cs, "plant_comments", row))
                /\ db' = InsertDb(db, cs, "plant_comments", row)
                /\ seqs' = [seqs EXCEPT !.plant_comments = @ + 1]
                /\ ins' = [ins EXCEPT ![p] = @ \o InsertTables(cs, "plant_comments")]
                /\ resp' = [resp EXCEPT ![p] =
                     Reply(201, [id |-> row.id, plant_id |-> row.plant_id,
                                 user_id |-> row.user_id, comment_text |-> row.comment_text,
                                 author |-> AuthorOf(Visible(cs, "users"), row.user_id)])]
  /\ pc' = [pc EXCEPT ![p] = "done"]
  /\ UNCHANGED <<held, req, loc, pre>>

\* ---- specification of the handlers that validate their input ----
NextValidated ==
  \E p \in Proc :
    \/ Register(p)
    \/ RegisterConnect(p)
    \/ RegisterBegin(p)
    \/ RegisterSelect(p)
    \/ RegisterInsert(p)
    \/ RegisterCommit(p)
    \/ RegisterRollback(p)
    \/ Login(p)
    \/ LoginQuery(p)
    \/ CreatePlant(p)
    \/ CreatePlantInsert(p)
    \/ AddComment(p)
    \/ AddCommentInsert(p)
    \/ CreateRoom(p)
    \/ CreateRoomConnect(p)
    \/ CreateRoomBegin(p)
    \/ CreateRoomInsertRoom(p)
    \/ CreateRoomInsertMember(p)
    \/ CreateRoomInsertFails(p)
    \/ CreateRoomCommit(p)
    \/ CreateRoomRollback(p)
    \/ SendMessage(p)
    \/ SendMessageSelect(p)
    \/ SendMessageInsert(p)
    \/ JoinRoom(p)
    \/ JoinRoomSelect(p)
    \/ JoinRoomInsert(p)

\* one user has registered and created a room
InitValidated ==
  /\ db = [EmptyDb EXCEPT !.users = SubSeq(RegisteredUsers, 1, 1), !.rooms = FirstRoom,
                          !.room_members = FirstRoomMembers]
  /\ seqs = [EmptySeqs EXCEPT !.users = 1, !.rooms = 1]
  /\ pool = CleanPool
  /\ held = [p \in Proc |-> <<>>]
  /\ pc = [p \in Proc |-> "idle"]
  /\ req = [p \in Proc |-> NoReq]
  /\ loc = [p \in Proc |-> NoLoc]
  /\ resp = [p \in Proc |-> NoResp]
  /\ ins = [p \in Proc |-> <<>>]
  /\ pre = [p \in Proc |-> NoPre]

SpecValidated == InitValidated /\ [][NextValidated]_vars

\* ---- properties of the validation ----
\* a body field that was not sent, or sent empty
FieldMissing(x) == x.type \in {"undefined", "null"} \/ (x.type = "string" /\ x.v = "")

\* request r lacks a field its handler requires
RequiredFieldMissing(r) ==
  CASE r.op \in {"register", "login"} -> r.username = "" \/ r.password = ""
    [] r.op = "plant" -> \/ FieldMissing(r.nome_cientifico) /\ FieldMissing(r.nome_popular)
                         \/ FieldMissing(r.latitude) \/ FieldMissing(r.longitude)
    [] r.op = "comment" -> r.userId = 0 \/ r.text = ""
    [] r.op = "room" -> r.name = "" \/ r.creator_id = 0
    [] r.op = "send" -> r.sender_id = 0 \/ r.content = ""
    [] r.op = "join" -> r.user_id = 0
    [] OTHER -> FALSE

\* C12: a request to register, login, create plant, add comment, create room,
\* send message or join room that lacks a required field is answered 400 in the
\* step it arrives in, before any pool connection is acquired or any statement
\* is executed, and the store is left unchanged.
ValidationBeforeStore ==
  [][\A p \in Proc :
       (pc[p] = "idle" /\ pc'[p] # "idle" /\ RequiredFieldMissing(req'[p])) =>
         /\ pc'[p] = "done" /\ resp'[p].status = 400
         /\ db' = db /\ seqs' = seqs /\ pool' = pool /\ held' = held]_vars

\* a comment without text and a plant without coordinates were turned away
\* with 400 and no Plant or PlantComment row was written
MissingFieldsTurnedAway ==
  \E p, q \in Proc :
    /\ Done(p, "comment") /\ req[p].userId # 0 /\ req[p].text = ""
    /\ resp[p].status = 400
    /\ Done(q, "plant") /\ ~FieldMissing(req[q].nome_popular)
    /\ FieldMissing(req[q].latitude)
    /\ resp[q].status = 400
    /\ db.plantas = <<>> /\ db.plant_comments = <<>>
    /\ seqs = [EmptySeqs EXCEPT !.users = 1, !.rooms = 1]

\* ---- specification of the handlers that run a transaction ----
NextTransactions ==
  \E p \in Proc :
    \/ Register(p)
    \/ RegisterConnect(p)
    \/ RegisterBegin(p)
    \/ RegisterSelect(p)
    \/ RegisterInsert(p)
    \/ RegisterCommit(p)
    \/ RegisterRollback(p)
    \/ CreateRoom(p)
    \/ CreateRoomConnect(p)
    \/ CreateRoomBegin(p)
    \/ CreateRoomInsertRoom(p)
    \/ CreateRoomInsertMember(p)
    \/ CreateRoomInsertFails(p)
    \/ CreateRoomCommit(p)
    \/ CreateRoomRollback(p)

SpecTransactions == Init /\ [][NextTransactions]_vars

\* ---- properties of the transactions ----
\* the requests that hold a client
Holders == {p \in Proc : held[p] # <<>>}

\* C13: on every exit path of registration and room creation that acquired a
\* connection, the transaction opened by BEGIN is ended by COMMIT or ROLLBACK
\* before the release: no connection in the pool has a transaction open, a
\* request that is done holds no client, and every connection is either in the
\* pool or held by one request (released exactly once).
TransactionEndedBeforeRelease ==
  /\ \A cs \in IdleConns : cs.tx = "none"
  /\ \A p \in Proc : pc[p] = "done" => held[p] = <<>>
  /\ BagCardinality(pool) + Cardinality(Holders) = NConn

\* ---- failures of the store in registration and room creation ----
\* the promise of the async handler rejects (an await outside the try block or
\* inside the catch block threw): Express 5 hands the error to the error
\* middleware, which answers 500; Express 4 ignores the rejection and the
\* request is never answered
HandlerRejects(p) ==
  \/ /\ resp' = [resp EXCEPT ![p] = Reply(500, <<>>)]
     /\ pc' = [pc EXCEPT ![p] = "done"]
  \/ /\ pc' = [pc EXCEPT ![p] = "unanswered"]
     /\ UNCHANGED resp

\* pool.connect() rejects: the handler has not entered its try block
ConnectFails(p) ==
  /\ pc[p] \in {"reg_connect", "room_connect"}
  /\ HandlerRejects(p)
  /\ UNCHANGED <<db, seqs, pool, held, req, loc, ins, pre>>

\* BEGIN, the SELECT, the INSERT or COMMIT of a registration throws
RegisterStatementFails(p) ==
  /\ pc[p] \in {"reg_begin", "reg_select", "reg_insert", "reg_commit"}
  /\ held' = [held EXCEPT ![p] = <<Abort(held[p][1])>>]
  /\ pc' = [pc EXCEPT ![p] = "reg_rollback"]
  /\ UNCHANGED <<db, seqs, pool, req, loc, resp, ins, pre>>

\* BEGIN or COMMIT of a room creation throws
CreateRoomStatementFails(p) ==
  /\ pc[p] \in {"room_begin", "room_commit"}
  /\ held' = [held EXCEPT ![p] = <<Abort(held[p][1])>>]
  /\ pc' = [pc EXCEPT ![p] = "room_rollback"]
  /\ UNCHANGED <<db, seqs, pool, req, loc, resp, ins, pre>>

\* the ROLLBACK of the catch block throws (the connection is lost, the store
\* discards the transaction with the session): the finally block releases the
\* client and the handler rejects
RollbackFails(p) ==
  /\ pc[p] \in {"reg_rollback", "room_rollback"}
  /\ pool' = Put(pool, ExecRollback(held[p][1]))
  /\ held' = [held EXCEPT ![p] = <<>>]
  /\ HandlerRejects(p)
  /\ UNCHANGED <<db, seqs, req, loc, ins, pre>>

\* the next step of request p when the store answers
Proceeds(p) ==
  \/ RegisterConnect(p)
  \/ RegisterBegin(p)
  \/ RegisterSelect(p)
  \/ RegisterInsert(p)
  \/ RegisterCommit(p)
  \/ RegisterRollback(p)
  \/ CreateRoomConnect(p)
  \/ CreateRoomBegin(p)
  \/ CreateRoomInsertRoom(p)
  \/ CreateRoomInsertMember(p)
  \/ CreateRoomCommit(p)
  \/ CreateRoomRollback(p)

NextFailures ==
  \E p \in Proc :
    \/ Register(p)
    \/ CreateRoom(p)
    \/ Proceeds(p)
    \/ ConnectFails(p)
    \/ RegisterStatementFails(p)
    \/ CreateRoomStatementFails(p)
    \/ CreateRoomInsertFails(p)
    \/ RollbackFails(p)

SpecFailures == Init /\ [][NextFailures]_vars

\* every await of a request settles: the store answers it or fails it
FairSpecFailures == SpecFailures /\ \A p \in Proc : WF_vars(Proceeds(p))

\* ---- properties of the failures ----
ConnectSteps == {"reg_connect", "room_connect"}
BeginSteps == {"reg_begin", "room_begin"}
RollbackSteps == {"reg_rollback", "room_rollback"}

\* C14: every registration or room creation that passes validation eventually
\* receives exactly one response, and when a store operation of the request
\* fails (the connection acquisition, BEGIN, a statement, COMMIT or the
\* ROLLBACK itself) that response is a 500; no statement is retried.
FailedRequestAnswered500 ==
  /\ \A p \in Proc : (pc[p] \notin {"idle", "done"}) ~> (pc[p] = "done")
  /\ [](\A p \in Proc : pc[p] # "done" => resp[p] = NoResp)
  /\ [][\A p \in Proc :
         /\ pc[p] = "done" => resp'[p] = resp[p]
         /\ (pc[p] \in ConnectSteps /\ pc'[p] \notin ConnectSteps \cup BeginSteps)
              => (pc'[p] = "done" /\ resp'[p].status = 500)
         /\ (pc[p] \in RollbackSteps /\ pc'[p] # pc[p])
              => (pc'[p] = "done" /\ resp'[p].status = 500)]_vars

====
